---- MODULE Spec2Model ----
(***************************************************************************)
(* youtube-archiver: the asyncio orchestration of main.py and              *)
(* downloader.py.                                                          *)
(*                                                                         *)
(* Two entry points are modelled.                                          *)
(*   Spec     main() -> main_async -> process_channel ->                   *)
(*            download_video_with_retries -> download_video                *)
(*   SpecDVC  download_videos_in_channel -> sem_download ->                *)
(*            fetch_video_metadata, download_video                         *)
(*                                                                         *)
(* asyncio runs one coroutine at a time and switches only at an await      *)
(* that really suspends.  loopOwner names the process_channel coroutine    *)
(* that is in the middle of such an uninterrupted stretch (0: the event    *)
(* loop is free to pick any ready task); every other coroutine step is a   *)
(* single action from one suspension to the next.  The event loop runs     *)
(* ready callbacks in the order they were queued (call_soon is FIFO), so   *)
(* the first steps of the tasks run in the order the tasks were created    *)
(* and before any callback queued later (a gather result, the completion   *)
(* of an executor call or of a sleep).  The outcome and the timing of      *)
(* every external call (lister, probe, fetch) are nondeterministic.        *)
(***************************************************************************)
EXTENDS Integers, Sequences, FiniteSets, TLC

\* ---------------------------------------------------------------- bounds
NumChannels == 2        \* longest "channels" list of the configuration
MaxItems == 2           \* most videos one listing returns
MaxListed == 2          \* most videos all listings of a run return together
MaxConcurrent == 1      \* largest --max-concurrent
MaxSlots == 2           \* largest max_concurrent of download_videos_in_channel
MaxVideos == 3          \* longest channel_videos list of download_videos_in_channel
MaxPieces == 3          \* most pieces an identifier given to get_channel_url is made of

\* ------------------------------------------------------- program constants
RETRY_LIMIT == 3
DEFAULT_RATE_LIMIT == 5     \* default of --rate-limit

VARIABLES
    config,       \* the configuration file as load_config sees it
    channels,     \* config["channels"]: a sequence of channel entries
    maxArg,       \* args.max_concurrent
    rateArg,      \* args.rate_limit
    metadata,     \* what fetch_video_metadata would return for the run's videos
    mainPc,       \* position of main / main_async
    rate_limit,   \* the rate_limit main passes on: {} is None, {r} is r
    semaphore,    \* main_async's asyncio.Semaphore: its free permits
    loopOwner,    \* process_channel coroutine running without suspension, or 0
    chan,         \* per channel: the process_channel task
    task,         \* per <<channel, index>>: the download_video_with_retries task
    dvc,          \* download_videos_in_channel: its frame (pc, semaphore, pbar)
    vtask,        \* per video: the sem_download task
    urlPc,        \* position of a lone get_channel_url call
    identifier,   \* its argument, a sequence of characters
    channel_url   \* its return value: {} is None, {s} is the string s

mainVars == <<config, channels, maxArg, rateArg, metadata, mainPc, rate_limit, semaphore,
              loopOwner, chan, task>>
dvcVars == <<dvc, vtask>>
urlVars == <<urlPc, identifier, channel_url>>
vars == <<config, channels, maxArg, rateArg, metadata, mainPc, rate_limit, semaphore,
          loopOwner, chan, task, dvc, vtask, urlPc, identifier, channel_url>>

ChanIds == 1..NumChannels
ItemIds == ChanIds \X (1..MaxItems)
VideoIds == 1..MaxVideos

\* ------------------------------------------------------------ Optional[int]
None == {}
Some(x) == {x}

\* Python truthiness of an Optional[int]: None and 0 are false.
Truthy(opt) == opt # None /\ \A x \in opt : x # 0

TheValue(opt) == CHOOSE x \in opt : TRUE

\* main(): rate_limit = args.rate_limit if args.rate_limit > 0 else None
MainRateLimit(arg) == IF arg > 0 THEN Some(arg) ELSE None

\* ------------------------------------------------------------- load_config
\* A configuration file: does the path exist, does it parse as JSON, is
\* "channels" present and a list, is "default_directories" present and a list.
ConfigFiles ==
    { [exists |-> TRUE,  parses |-> TRUE,  channels_list |-> TRUE,  dirs_list |-> TRUE],
      [exists |-> FALSE, parses |-> TRUE,  channels_list |-> TRUE,  dirs_list |-> TRUE],
      [exists |-> TRUE,  parses |-> FALSE, channels_list |-> TRUE,  dirs_list |-> TRUE],
      [exists |-> TRUE,  parses |-> TRUE,  channels_list |-> FALSE, dirs_list |-> TRUE],
      [exists |-> TRUE,  parses |-> TRUE,  channels_list |-> TRUE,  dirs_list |-> FALSE] }

\* What load_config does with the file: "ok" (the dict is returned) or
\* "ConfigError".  The entries of "channels" are not looked at.
load_config(cfg) ==
    IF ~cfg.exists THEN "ConfigError"
    ELSE IF ~cfg.parses THEN "ConfigError"
    ELSE IF ~cfg.channels_list THEN "ConfigError"
    ELSE IF ~cfg.dirs_list THEN "ConfigError"
    ELSE "ok"

\* A channel entry: "url_ok" has a "url" that get_channel_url maps to a URL,
\* "url_unmatched" has a "url" that matches no rule of get_channel_url,
\* "url_missing" has no "url" key.
ChannelEntries == {"url_ok", "url_unmatched", "url_missing"}

\* channel_config["url"] followed by get_channel_url: the normalized URL
\* ("url"), Python's None when no rule matches (the function falls off its
\* end), or KeyError when the key is absent.
get_channel_url(entry) ==
    IF entry = "url_missing" THEN "KeyError"
    ELSE IF entry = "url_ok" THEN "url"
    ELSE "None"

\* --------------------------------------------------------- download_video
\* The frame of one download_video call.
\*   pc        "fetch": awaiting run_in_executor(_run_yt_dlp_download)
\*             "sleep": awaiting asyncio.sleep(rate_limit)
\*             "returned" / "raised" (DownloadError) / "idle" (not called)
\*   tries     the local variable
\*   started   fetch attempts started    (history)
\*   finished  fetch attempts finished   (history)
\*   delays    the durations slept, in order (history)
DVIdle == [pc |-> "idle", tries |-> 0, started |-> 0, finished |-> 0, delays |-> <<>>]

NextTries_NotCounted(tries) == tries

\* tries += 1
NextTries(tries) == tries + 1

\* while tries < RETRY_LIMIT
LoopCondition(tries) == tries < RETRY_LIMIT

RetriesExhausted_Late(tries) == tries > RETRY_LIMIT

\* if tries >= RETRY_LIMIT: raise DownloadError
RetriesExhausted(tries) == tries >= RETRY_LIMIT

\* Top of the while loop with the given tries: start a fetch, or fall out of
\* the loop and return.
DVLoop(d, tries) ==
    IF LoopCondition(tries)
    THEN [d EXCEPT !.pc = "fetch", !.tries = tries, !.started = @ + 1]
    ELSE [d EXCEPT !.pc = "returned", !.tries = tries]

\* download_video is called: tries = 0, first pass through the loop.
DVBegin == DVLoop(DVIdle, 0)

DVFetchOk_NoSleep(d, rl) == [d EXCEPT !.pc = "returned", !.finished = @ + 1]

\* The fetch returned normally: sleep if rate_limit is truthy, then return.
DVFetchOk(d, rl) ==
    IF Truthy(rl)
    THEN [d EXCEPT !.pc = "sleep", !.finished = @ + 1,
                   !.delays = Append(@, TheValue(rl))]
    ELSE [d EXCEPT !.pc = "returned", !.finished = @ + 1]

DVFetchFail_Overlap(d) ==
    LET t == NextTries(d.tries)
    IN  IF RetriesExhausted(t)
        THEN [d EXCEPT !.pc = "raised", !.tries = t, !.finished = @ + 1]
        ELSE DVLoop(d, t)

\* The fetch raised: the except branch, then the next pass of the loop.
DVFetchFail(d) ==
    LET t == NextTries(d.tries)
        e == [d EXCEPT !.finished = @ + 1]
    IN  IF RetriesExhausted(t)
        THEN [e EXCEPT !.pc = "raised", !.tries = t]
        ELSE DVLoop(e, t)

\* asyncio.sleep(rate_limit) is over: return.
DVSleepDone(d) == [d EXCEPT !.pc = "returned"]

\* ------------------------------------------- download_video_with_retries
download_video_with_retries_Uncaught(dvpc) ==
    IF dvpc = "raised"
    THEN [result |-> "exception", outcome |-> "FatalFailure"]
    ELSE [result |-> "returned", outcome |-> "Success"]

\* How the wrapper ends, given how download_video ended: result is how the
\* task finishes ("returned", or "exception" when something propagates out of
\* it); outcome is the item's terminal outcome.  DownloadError is caught and
\* logged.
download_video_with_retries(dvpc) ==
    IF dvpc = "raised"
    THEN [result |-> "returned", outcome |-> "FatalFailure"]
    ELSE [result |-> "returned", outcome |-> "Success"]

\* -------------------------------------------------------------------- state
\* An item task.  st: "none" (no task), "created" (scheduled, first step not
\* run), "running" (inside download_video), "done", "cancelled".
\* log: the terminal outcomes recorded for the item, in order.
TaskNone == [st |-> "none", dv |-> DVIdle, result |-> "none", log |-> <<>>]

\* A process_channel task.  pc: "none", "created", "normalized", "loop",
\* "waiting" (suspended in semaphore.acquire), "holding" (inside async with,
\* before create_task), "made" (inside async with, after create_task),
\* "gathering", "returned", "raised", "cancelled".
\* count: len(video_urls); next: the index of the loop; held: slots held.
\* error: the exception the task ended with ("none" when it has not).
ChanNone == [pc |-> "none", url |-> "unset", count |-> 0, next |-> 1, held |-> 0,
             error |-> "none"]

\* fetch_video_metadata on a video of the run: the metadata dict, or None
\* when the extraction raises.  The main_async path never asks.
MetadataResults == {"dict", "None"}

DVCIdle == [pc |-> "idle", total |-> 0, max_concurrent |-> 0, rate_limit |-> None,
            semaphore |-> 0, pbar |-> 0, pending |-> 0]
VTaskNone == [st |-> "none", dv |-> DVIdle, holds |-> FALSE, probe |-> "none",
              result |-> "none", callbacks |-> "none", log |-> <<>>]

ChannelLists == UNION { [1..n -> ChannelEntries] : n \in 0..NumChannels }

Init ==
    /\ config \in ConfigFiles
    /\ channels \in ChannelLists
    /\ maxArg \in 0..MaxConcurrent
    /\ rateArg \in {0, DEFAULT_RATE_LIMIT}
    /\ metadata \in MetadataResults
    /\ mainPc = "start"
    /\ rate_limit = None
    /\ semaphore = 0
    /\ loopOwner = 0
    /\ chan = [c \in ChanIds |-> ChanNone]
    /\ task = [i \in ItemIds |-> TaskNone]
    /\ dvc = DVCIdle
    /\ vtask = [v \in VideoIds |-> VTaskNone]
    /\ urlPc = "idle"
    /\ identifier = <<>>
    /\ channel_url = None

inputs == <<config, channels, maxArg, rateArg, metadata>>

\* ----------------------------------------------------- main and main_async
\* main() up to the first suspension of main_async: the rate limit is
\* converted, the configuration loaded, the semaphore built, one
\* process_channel task created per entry, and gather awaited.
Main_Start ==
    /\ mainPc = "start"
    /\ rate_limit' = MainRateLimit(rateArg)
    /\ IF load_config(config) = "ConfigError"
       THEN /\ mainPc' = "config_error"
            /\ UNCHANGED <<semaphore, chan>>
       ELSE /\ semaphore' = maxArg
            /\ chan' = [c \in ChanIds |->
                          IF c <= Len(channels)
                          THEN [ChanNone EXCEPT !.pc = "created"]
                          ELSE ChanNone]
            /\ mainPc' = IF Len(channels) = 0 THEN "finished" ELSE "gathering"
    /\ UNCHANGED <<inputs, loopOwner, task, dvcVars, urlVars>>

ChanTasks == { c \in ChanIds : chan[c].pc # "none" }

\* a was created before b (items: channel by channel, index by index).
Earlier(a, b) == a[1] < b[1] \/ (a[1] = b[1] /\ a[2] < b[2])

\* No task created so far is still waiting for its first step.
FirstStepsDone ==
    /\ \A c \in ChanIds : chan[c].pc # "created"
    /\ \A i \in ItemIds : task[i].st # "created"

\* asyncio.run on an exception out of main_async: every task still pending
\* is cancelled.
CancelChan(ch) ==
    IF ch.pc \in {"none", "returned", "raised"} THEN ch ELSE [ch EXCEPT !.pc = "cancelled"]

CancelTask(t) ==
    IF t.st \in {"none", "done"} THEN t ELSE [t EXCEPT !.st = "cancelled"]

\* await asyncio.gather(*tasks) in main_async resumes: with the first
\* exception of a channel task, which propagates out of main_async, or with
\* all results, after which "finished" is logged.
Main_GatherRaises ==
    /\ mainPc = "gathering"
    /\ loopOwner = 0
    /\ FirstStepsDone
    /\ \E c \in ChanTasks : chan[c].pc = "raised"
    /\ mainPc' = "aborted"
    /\ chan' = [c \in ChanIds |-> CancelChan(chan[c])]
    /\ task' = [i \in ItemIds |-> CancelTask(task[i])]
    /\ UNCHANGED <<inputs, rate_limit, semaphore, loopOwner, dvcVars, urlVars>>

Main_GatherReturns ==
    /\ mainPc = "gathering"
    /\ loopOwner = 0
    /\ \A c \in ChanTasks : chan[c].pc = "returned"
    /\ mainPc' = "finished"
    /\ UNCHANGED <<inputs, rate_limit, semaphore, loopOwner, chan, task, dvcVars, urlVars>>

\* ---------------------------------------------------------- process_channel
\* The event loop picks a process_channel task for its first step:
\* channel_config["url"] and get_channel_url.
PC_Start(c) ==
    /\ mainPc = "gathering"
    /\ loopOwner = 0
    /\ chan[c].pc = "created"
    /\ \A b \in ChanIds : b < c => chan[b].pc # "created"
    /\ LET u == get_channel_url(channels[c])
       IN  IF u = "KeyError"
           THEN /\ chan' = [chan EXCEPT ![c].pc = "raised", ![c].error = "KeyError"]
                /\ UNCHANGED loopOwner
           ELSE /\ chan' = [chan EXCEPT ![c].pc = "normalized", ![c].url = u]
                /\ loopOwner' = c
    /\ UNCHANGED <<inputs, mainPc, rate_limit, semaphore, task, dvcVars, urlVars>>

RECURSIVE SumLen(_)
SumLen(S) == IF S = {} THEN 0
             ELSE LET c == CHOOSE x \in S : TRUE
                  IN  chan[c].count + SumLen(S \ {c})

\* Videos listed so far in the run.
Listed == SumLen(ChanIds)

\* list_videos_in_channel(channel_url): the "in" test on None raises
\* TypeError; otherwise the lister returns n URLs or raises.
PC_List(c) ==
    /\ loopOwner = c
    /\ chan[c].pc = "normalized"
    /\ \/ /\ chan[c].url = "None"
          /\ chan' = [chan EXCEPT ![c].pc = "raised", ![c].error = "TypeError"]
          /\ loopOwner' = 0
       \/ /\ chan[c].url # "None"
          /\ chan' = [chan EXCEPT ![c].pc = "raised", ![c].error = "ListingError"]
          /\ loopOwner' = 0
       \/ /\ chan[c].url # "None"
          /\ \E n \in 0..MaxItems :
                /\ Listed + n <= MaxListed
                /\ chan' = [chan EXCEPT ![c].pc = "loop", ![c].count = n, ![c].next = 1]
          /\ UNCHANGED loopOwner
    /\ UNCHANGED <<inputs, mainPc, rate_limit, semaphore, task, dvcVars, urlVars>>

Locked_OffByOne(value) == value < 0

\* Semaphore.locked()
Locked(value) == value = 0

\* async with semaphore, entry: acquire() takes a permit without suspending
\* when the semaphore is not locked.  Also the resumption of a coroutine
\* suspended in acquire().
PC_Acquire(c) ==
    /\ \/ loopOwner = c /\ chan[c].pc = "loop"
       \/ loopOwner = 0 /\ chan[c].pc = "waiting" /\ mainPc = "gathering"
    /\ chan[c].next <= chan[c].count
    /\ ~Locked(semaphore)
    /\ semaphore' = semaphore - 1
    /\ chan' = [chan EXCEPT ![c].pc = "holding", ![c].held = @ + 1]
    /\ loopOwner' = c
    /\ UNCHANGED <<inputs, mainPc, rate_limit, task, dvcVars, urlVars>>

\* acquire() on a locked semaphore suspends the coroutine.
PC_Block(c) ==
    /\ loopOwner = c
    /\ chan[c].pc = "loop"
    /\ chan[c].next <= chan[c].count
    /\ Locked(semaphore)
    /\ chan' = [chan EXCEPT ![c].pc = "waiting"]
    /\ loopOwner' = 0
    /\ UNCHANGED <<inputs, mainPc, rate_limit, semaphore, task, dvcVars, urlVars>>

PC_CreateTask_Eager(c) ==
    /\ loopOwner = c
    /\ chan[c].pc = "holding"
    /\ task' = [task EXCEPT ![<<c, chan[c].next>>] =
                    [@ EXCEPT !.st = "running", !.dv = DVBegin]]
    /\ chan' = [chan EXCEPT ![c].pc = "made"]
    /\ UNCHANGED <<inputs, mainPc, rate_limit, semaphore, loopOwner, dvcVars, urlVars>>

\* asyncio.create_task(download_video_with_retries(...)); tasks.append(task)
PC_CreateTask(c) ==
    /\ loopOwner = c
    /\ chan[c].pc = "holding"
    /\ task' = [task EXCEPT ![<<c, chan[c].next>>].st = "created"]
    /\ chan' = [chan EXCEPT ![c].pc = "made"]
    /\ UNCHANGED <<inputs, mainPc, rate_limit, semaphore, loopOwner, dvcVars, urlVars>>

PC_Release_Forgotten(c) ==
    /\ loopOwner = c
    /\ chan[c].pc = "made"
    /\ chan' = [chan EXCEPT ![c].pc = "loop", ![c].next = @ + 1]
    /\ UNCHANGED <<inputs, mainPc, rate_limit, semaphore, loopOwner, task, dvcVars, urlVars>>

\* async with semaphore, exit: release(); then the next iteration.
PC_Release(c) ==
    /\ loopOwner = c
    /\ chan[c].pc = "made"
    /\ semaphore' = semaphore + 1
    /\ chan' = [chan EXCEPT ![c].pc = "loop", ![c].next = @ + 1, ![c].held = @ - 1]
    /\ UNCHANGED <<inputs, mainPc, rate_limit, loopOwner, task, dvcVars, urlVars>>

ItemsOf(c) == { i \in ItemIds : i[1] = c /\ task[i].st # "none" }

\* await asyncio.gather(*tasks) after the loop: gather of no task is already
\* done and the coroutine runs on to its end; otherwise it suspends.
PC_Gather(c) ==
    /\ loopOwner = c
    /\ chan[c].pc = "loop"
    /\ chan[c].next > chan[c].count
    /\ chan' = [chan EXCEPT ![c].pc = IF chan[c].count = 0 THEN "returned" ELSE "gathering"]
    /\ loopOwner' = 0
    /\ UNCHANGED <<inputs, mainPc, rate_limit, semaphore, task, dvcVars, urlVars>>

PC_GatherDone_FirstDone(c) ==
    /\ mainPc = "gathering"
    /\ loopOwner = 0
    /\ chan[c].pc = "gathering"
    /\ IF \E i \in ItemsOf(c) : task[i].st = "done" /\ task[i].result = "exception"
       THEN chan' = [chan EXCEPT ![c].pc = "raised", ![c].error = "ItemError"]
       ELSE /\ \E i \in ItemsOf(c) : task[i].st = "done"
            /\ chan' = [chan EXCEPT ![c].pc = "returned"]
    /\ UNCHANGED <<inputs, mainPc, rate_limit, semaphore, loopOwner, task, dvcVars, urlVars>>

\* gather resumes process_channel: with the first exception of an item task,
\* which propagates out of process_channel, or, once every task is done, with
\* all results, after which "Completed processing channel" is logged.
PC_GatherDone(c) ==
    /\ mainPc = "gathering"
    /\ loopOwner = 0
    /\ chan[c].pc = "gathering"
    /\ IF \E i \in ItemsOf(c) : task[i].st = "done" /\ task[i].result = "exception"
       THEN chan' = [chan EXCEPT ![c].pc = "raised", ![c].error = "ItemError"]
       ELSE /\ \A i \in ItemsOf(c) : task[i].st = "done"
            /\ chan' = [chan EXCEPT ![c].pc = "returned"]
    /\ UNCHANGED <<inputs, mainPc, rate_limit, semaphore, loopOwner, task, dvcVars, urlVars>>

\* ------------------------------------------------------------- item tasks
\* An item task whose download_video frame is d: still inside it, or ended
\* the way download_video_with_retries ends it.
TaskAfter(t, d) ==
    IF d.pc \in {"returned", "raised"}
    THEN LET w == download_video_with_retries(d.pc)
         IN  [t EXCEPT !.st = "done", !.dv = d, !.result = w.result,
                       !.log = Append(@, w.outcome)]
    ELSE [t EXCEPT !.st = "running", !.dv = d]

\* First step of an item task: download_video_with_retries calls
\* download_video, which starts the first fetch in the executor.
IT_Start(i) ==
    /\ mainPc = "gathering"
    /\ loopOwner = 0
    /\ task[i].st = "created"
    /\ \A c \in ChanIds : chan[c].pc # "created"
    /\ \A j \in ItemIds : Earlier(j, i) => task[j].st # "created"
    /\ task' = [task EXCEPT ![i] = TaskAfter(@, DVBegin)]
    /\ UNCHANGED <<inputs, mainPc, rate_limit, semaphore, loopOwner, chan, dvcVars, urlVars>>

\* The executor future of a fetch completes, normally or with an exception.
IT_FetchOk(i) ==
    /\ mainPc = "gathering"
    /\ loopOwner = 0
    /\ FirstStepsDone
    /\ task[i].st = "running"
    /\ task[i].dv.pc = "fetch"
    /\ task' = [task EXCEPT ![i] = TaskAfter(@, DVFetchOk(@.dv, rate_limit))]
    /\ UNCHANGED <<inputs, mainPc, rate_limit, semaphore, loopOwner, chan, dvcVars, urlVars>>

IT_FetchFail(i) ==
    /\ mainPc = "gathering"
    /\ loopOwner = 0
    /\ FirstStepsDone
    /\ task[i].st = "running"
    /\ task[i].dv.pc = "fetch"
    /\ task' = [task EXCEPT ![i] = TaskAfter(@, DVFetchFail(@.dv))]
    /\ UNCHANGED <<inputs, mainPc, rate_limit, semaphore, loopOwner, chan, dvcVars, urlVars>>

\* asyncio.sleep(rate_limit) completes.
IT_SleepDone(i) ==
    /\ mainPc = "gathering"
    /\ loopOwner = 0
    /\ FirstStepsDone
    /\ task[i].st = "running"
    /\ task[i].dv.pc = "sleep"
    /\ task' = [task EXCEPT ![i] = TaskAfter(@, DVSleepDone(@.dv))]
    /\ UNCHANGED <<inputs, mainPc, rate_limit, semaphore, loopOwner, chan, dvcVars, urlVars>>

Next ==
    \/ Main_Start
    \/ Main_GatherRaises
    \/ Main_GatherReturns
    \/ \E c \in ChanIds : PC_Start(c)
    \/ \E c \in ChanIds : PC_List(c)
    \/ \E c \in ChanIds : PC_Acquire(c)
    \/ \E c \in ChanIds : PC_Block(c)
    \/ \E c \in ChanIds : PC_CreateTask(c)
    \/ \E c \in ChanIds : PC_Release(c)
    \/ \E c \in ChanIds : PC_Gather(c)
    \/ \E c \in ChanIds : PC_GatherDone(c)
    \/ \E i \in ItemIds : IT_Start(i)
    \/ \E i \in ItemIds : IT_FetchOk(i)
    \/ \E i \in ItemIds : IT_FetchFail(i)
    \/ \E i \in ItemIds : IT_SleepDone(i)

Spec == Init /\ [][Next]_vars

\* The event loop never stops while a task is ready, and every executor call
\* and every sleep comes back: some step is taken whenever one is possible.
Fairness == WF_vars(Next)

\* The runs of main_async; no step of it reads metadata.
InitFair == Init /\ metadata = "dict"

FairSpec == InitFair /\ [][Next]_vars /\ Fairness

\* ------------------------------------------------ download_videos_in_channel
\* How sem_download ends, given how download_video ended: DownloadError is
\* caught and logged.
sem_download_end(dvpc) ==
    IF dvpc = "raised"
    THEN [result |-> "returned", outcome |-> "FatalFailure"]
    ELSE [result |-> "returned", outcome |-> "Success"]

PbarUpdate_Twice(n) == n + 2

\* pbar.update(1)
PbarUpdate(n) == n + 1

\* The rate_limit arguments download_videos_in_channel is called with.
RateLimits == {None, Some(0), Some(DEFAULT_RATE_LIMIT)}

ValidConfig == [exists |-> TRUE, parses |-> TRUE, channels_list |-> TRUE, dirs_list |-> TRUE]

InitDVC ==
    /\ config = ValidConfig
    /\ channels = <<>>
    /\ maxArg = 0
    /\ rateArg = 0
    /\ metadata = "dict"
    /\ mainPc = "idle"
    /\ rate_limit = None
    /\ semaphore = 0
    /\ loopOwner = 0
    /\ chan = [c \in ChanIds |-> ChanNone]
    /\ task = [i \in ItemIds |-> TaskNone]
    /\ dvc = [DVCIdle EXCEPT !.pc = "start"]
    /\ vtask = [v \in VideoIds |-> VTaskNone]
    /\ urlPc = "idle"
    /\ identifier = <<>>
    /\ channel_url = None

\* The call, up to its first suspension: the semaphore and the progress bar
\* are built, one sem_download task per video is created with its done
\* callback, and gather is awaited (gather of no task is already done).
DVC_Start ==
    /\ dvc.pc = "start"
    /\ \E n \in 0..MaxVideos, m \in 0..MaxSlots, rl \in RateLimits :
          /\ dvc' = [pc |-> IF n = 0 THEN "returned" ELSE "gathering",
                     total |-> n, max_concurrent |-> m, rate_limit |-> rl,
                     semaphore |-> m, pbar |-> 0, pending |-> n]
          /\ vtask' = [v \in VideoIds |->
                         IF v <= n THEN [VTaskNone EXCEPT !.st = "created"] ELSE VTaskNone]
    /\ UNCHANGED <<mainVars, urlVars>>

Videos == { v \in VideoIds : vtask[v].st # "none" }

\* A sem_download task ends: the "async with" block is left, which releases
\* the slot, and the task's done callbacks are scheduled.
VTaskEnd(t, outcome, result) ==
    [t EXCEPT !.st = "done", !.holds = FALSE, !.result = result,
              !.callbacks = "scheduled", !.log = Append(@, outcome)]

\* A sem_download task whose download_video frame is d.
VTaskAfter(t, d) ==
    IF d.pc \in {"returned", "raised"}
    THEN LET w == sem_download_end(d.pc)
         IN  VTaskEnd([t EXCEPT !.dv = d], w.outcome, w.result)
    ELSE [t EXCEPT !.st = "running", !.dv = d]

Released_NotOnSkip(sem, t, u) ==
    IF t.holds /\ ~u.holds /\ u.probe # "failed" THEN sem + 1 ELSE sem

\* The semaphore after a step that took task t to task u: a slot given up is
\* released.
Released(sem, t, u) == IF t.holds /\ ~u.holds THEN sem + 1 ELSE sem

\* No sem_download task is still waiting for its first step.
VFirstStepsDone == \A v \in VideoIds : vtask[v].st # "created"

\* The task's turn has come: its first step, after those of the tasks created
\* before it, or its resumption from acquire().
VTurn(v) ==
    \/ vtask[v].st = "created" /\ \A u \in VideoIds : u < v => vtask[u].st # "created"
    \/ vtask[v].st = "waiting" /\ VFirstStepsDone

\* async with semaphore, entry (first step of the task, or its resumption
\* from acquire()): a permit is taken and fetch_video_metadata starts the
\* probe in the executor.
V_Acquire(v) ==
    /\ dvc.pc = "gathering"
    /\ VTurn(v)
    /\ ~Locked(dvc.semaphore)
    /\ dvc' = [dvc EXCEPT !.semaphore = @ - 1]
    /\ vtask' = [vtask EXCEPT ![v].st = "probing", ![v].holds = TRUE]
    /\ UNCHANGED <<mainVars, urlVars>>

\* acquire() on a locked semaphore suspends the task.
V_Block(v) ==
    /\ dvc.pc = "gathering"
    /\ vtask[v].st = "created"
    /\ VTurn(v)
    /\ Locked(dvc.semaphore)
    /\ vtask' = [vtask EXCEPT ![v].st = "waiting"]
    /\ UNCHANGED <<mainVars, urlVars, dvc>>

\* fetch_video_metadata returns the metadata: download_video is called.
V_ProbeOk(v) ==
    /\ dvc.pc = "gathering"
    /\ VFirstStepsDone
    /\ vtask[v].st = "probing"
    /\ vtask' = [vtask EXCEPT ![v] = VTaskAfter([@ EXCEPT !.probe = "ok"], DVBegin)]
    /\ dvc' = [dvc EXCEPT !.semaphore = Released(@, vtask[v], vtask'[v])]
    /\ UNCHANGED <<mainVars, urlVars>>

\* fetch_video_metadata returns None: the skip is logged and the task returns.
V_ProbeFailed(v) ==
    /\ dvc.pc = "gathering"
    /\ VFirstStepsDone
    /\ vtask[v].st = "probing"
    /\ vtask' = [vtask EXCEPT ![v] = VTaskEnd([@ EXCEPT !.probe = "failed"],
                                              "Skipped", "returned")]
    /\ dvc' = [dvc EXCEPT !.semaphore = Released(@, vtask[v], vtask'[v])]
    /\ UNCHANGED <<mainVars, urlVars>>

V_FetchOk(v) ==
    /\ dvc.pc = "gathering"
    /\ VFirstStepsDone
    /\ vtask[v].st = "running"
    /\ vtask[v].dv.pc = "fetch"
    /\ vtask' = [vtask EXCEPT ![v] = VTaskAfter(@, DVFetchOk(@.dv, dvc.rate_limit))]
    /\ dvc' = [dvc EXCEPT !.semaphore = Released(@, vtask[v], vtask'[v])]
    /\ UNCHANGED <<mainVars, urlVars>>

V_FetchFail(v) ==
    /\ dvc.pc = "gathering"
    /\ VFirstStepsDone
    /\ vtask[v].st = "running"
    /\ vtask[v].dv.pc = "fetch"
    /\ vtask' = [vtask EXCEPT ![v] = VTaskAfter(@, DVFetchFail(@.dv))]
    /\ dvc' = [dvc EXCEPT !.semaphore = Released(@, vtask[v], vtask'[v])]
    /\ UNCHANGED <<mainVars, urlVars>>

V_SleepDone(v) ==
    /\ dvc.pc = "gathering"
    /\ VFirstStepsDone
    /\ vtask[v].st = "running"
    /\ vtask[v].dv.pc = "sleep"
    /\ vtask' = [vtask EXCEPT ![v] = VTaskAfter(@, DVSleepDone(@.dv))]
    /\ dvc' = [dvc EXCEPT !.semaphore = Released(@, vtask[v], vtask'[v])]
    /\ UNCHANGED <<mainVars, urlVars>>

\* The done callbacks of a finished task run in the order they were added:
\* the lambda with pbar.update(1), then gather's own.
V_Callbacks(v) ==
    /\ dvc.pc = "gathering"
    /\ VFirstStepsDone
    /\ vtask[v].st = "done"
    /\ vtask[v].callbacks = "scheduled"
    /\ vtask' = [vtask EXCEPT ![v].callbacks = "run"]
    /\ dvc' = [dvc EXCEPT !.pbar = PbarUpdate(@), !.pending = @ - 1]
    /\ UNCHANGED <<mainVars, urlVars>>

\* gather resumes download_videos_in_channel: with the first exception of a
\* task, or with all results; either way the "with tqdm" block is left.
DVC_GatherDone ==
    /\ dvc.pc = "gathering"
    /\ IF \E v \in Videos : vtask[v].callbacks = "run" /\ vtask[v].result = "exception"
       THEN dvc' = [dvc EXCEPT !.pc = "raised"]
       ELSE /\ dvc.pending = 0
            /\ dvc' = [dvc EXCEPT !.pc = "returned"]
    /\ UNCHANGED <<mainVars, urlVars, vtask>>

NextDVC ==
    \/ DVC_Start
    \/ DVC_GatherDone
    \/ \E v \in VideoIds : V_Acquire(v)
    \/ \E v \in VideoIds : V_Block(v)
    \/ \E v \in VideoIds : V_ProbeOk(v)
    \/ \E v \in VideoIds : V_ProbeFailed(v)
    \/ \E v \in VideoIds : V_FetchOk(v)
    \/ \E v \in VideoIds : V_FetchFail(v)
    \/ \E v \in VideoIds : V_SleepDone(v)
    \/ \E v \in VideoIds : V_Callbacks(v)

SpecDVC == InitDVC /\ [][NextDVC]_vars

\* ----------------------------------------------- get_channel_url on strings
\* Strings are sequences of characters.
Space == <<" ">>
HttpScheme == <<"h", "t", "t", "p", ":", "/", "/">>
HttpsScheme == <<"h", "t", "t", "p", "s", ":", "/", "/">>
WatchMarker == <<"y", "o", "u", "t", "u", "b", "e", ".", "c", "o", "m", "/", "w", "a", "t", "c", "h", "?", "v", "=">>
ChannelIdPrefix == <<"U", "C">>
HandleMarker == <<"@">>
VideosSuffix == <<"/", "v", "i", "d", "e", "o", "s">>
Slash == <<"/">>
Letter == <<"x">>
ChannelUrlPrefix == <<"h", "t", "t", "p", "s", ":", "/", "/", "w", "w", "w", ".", "y", "o", "u", "t", "u", "b", "e", ".", "c", "o", "m", "/", "c", "h", "a", "n", "n", "e", "l", "/">>
YoutubeUrlPrefix == <<"h", "t", "t", "p", "s", ":", "/", "/", "w", "w", "w", ".", "y", "o", "u", "t", "u", "b", "e", ".", "c", "o", "m", "/">>

\* The pieces identifiers are put together from.
Pieces == {Space, HttpScheme, HttpsScheme, WatchMarker, ChannelIdPrefix, HandleMarker,
           VideosSuffix, Slash, Letter}

RECURSIVE Identifiers(_)
Identifiers(n) ==
    IF n = 0 THEN {<<>>}
    ELSE LET shorter == Identifiers(n - 1)
         IN  shorter \cup { s \o p : s \in shorter, p \in Pieces }

\* str.startswith(prefix)
startswith(s, prefix) ==
    Len(s) >= Len(prefix) /\ SubSeq(s, 1, Len(prefix)) = prefix

\* sub in s
contains(s, sub) ==
    \E k \in 1..(Len(s) - Len(sub) + 1) : SubSeq(s, k, k + Len(sub) - 1) = sub

\* str.rstrip(chars) for one character
RECURSIVE rstrip(_, _)
rstrip(s, ch) ==
    IF s # <<>> /\ s[Len(s)] = ch THEN rstrip(SubSeq(s, 1, Len(s) - 1), ch) ELSE s

RECURSIVE lstrip(_, _)
lstrip(s, ch) ==
    IF s # <<>> /\ s[1] = ch THEN lstrip(Tail(s), ch) ELSE s

\* str.strip(): whitespace off both ends
strip(s) == rstrip(lstrip(s, " "), " ")

\* get_channel_url(channel_identifier): the rules in the order of the code.
\* An identifier no rule matches falls off the end of the function: None.
GetChannelUrl(raw) ==
    LET id == strip(raw)
    IN  IF startswith(id, HttpScheme) \/ startswith(id, HttpsScheme)
        THEN IF contains(id, WatchMarker) THEN Some(id)
             ELSE IF ~contains(id, VideosSuffix)
                  THEN Some(rstrip(id, "/") \o VideosSuffix)
                  ELSE Some(id)
        ELSE IF startswith(id, ChannelIdPrefix)
             THEN Some(ChannelUrlPrefix \o id \o VideosSuffix)
             ELSE IF contains(id, HandleMarker)
                  THEN Some(YoutubeUrlPrefix \o rstrip(id, "/") \o VideosSuffix)
                  ELSE None

InitURL ==
    /\ config = ValidConfig
    /\ channels = <<>>
    /\ maxArg = 0
    /\ rateArg = 0
    /\ metadata = "dict"
    /\ mainPc = "idle"
    /\ rate_limit = None
    /\ semaphore = 0
    /\ loopOwner = 0
    /\ chan = [c \in ChanIds |-> ChanNone]
    /\ task = [i \in ItemIds |-> TaskNone]
    /\ dvc = DVCIdle
    /\ vtask = [v \in VideoIds |-> VTaskNone]
    /\ urlPc = "start"
    /\ identifier \in Identifiers(MaxPieces)
    /\ channel_url = None

\* The call of get_channel_url on the identifier.
URL_Normalize ==
    /\ urlPc = "start"
    /\ channel_url' = GetChannelUrl(identifier)
    /\ urlPc' = "done"
    /\ UNCHANGED <<mainVars, dvcVars, identifier>>

NextURL == URL_Normalize

SpecURL == InitURL /\ [][NextURL]_vars

\* ===================================================================== claims

Created == { i \in ItemIds : task[i].st # "none" }

\* Items whose download_video_with_retries has started and has not ended.
InFlight == { i \in ItemIds : task[i].st = "running" }

TerminalOutcomes == {"Success", "Skipped", "FatalFailure"}

\* C1: in a run of main_async with maxConcurrent = N >= 1 the number of items
\* whose processing has started and has not reached a terminal outcome never
\* exceeds N, across all channels.
C1_InFlightWithinBudget ==
    (mainPc = "gathering" /\ maxArg >= 1) => Cardinality(InFlight) <= maxArg

\* Videos of download_videos_in_channel between the start of the probe and
\* the terminal outcome.
Admitted == { v \in VideoIds : vtask[v].st \in {"probing", "running"} }

\* C2: in download_videos_in_channel every task holds a semaphore slot from
\* before its probe starts until its item is terminal, and so at most
\* max_concurrent items are between probe start and terminal outcome.
C2_SlotHeldFromProbeToTerminal ==
    /\ [](/\ \A v \in VideoIds : vtask[v].holds <=> v \in Admitted
          /\ Cardinality(Admitted) <= dvc.max_concurrent)
    /\ [][\A v \in VideoIds :
            /\ (vtask[v].st # "probing" /\ vtask'[v].st = "probing")
                  => ~vtask[v].holds /\ vtask'[v].holds
                        /\ dvc'.semaphore = dvc.semaphore - 1
            /\ (vtask[v].holds /\ ~vtask'[v].holds)
                  => vtask'[v].st = "done" /\ Len(vtask'[v].log) = 1
                        /\ vtask'[v].log[1] \in TerminalOutcomes]_vars

\* C2 witness: the gate is full, a task is kept waiting at it, and a task has
\* already finished and given its slot back.
C2_Witness ==
    /\ dvc.max_concurrent >= 1
    /\ Cardinality(Admitted) = dvc.max_concurrent
    /\ \E v \in VideoIds : vtask[v].st = "waiting"
    /\ \E v \in VideoIds : vtask[v].st = "done"

\* C3: download_video invokes the fetch at most RETRY_LIMIT times: the
\* attempt number never exceeds 3, and no attempt is started after the third
\* failure or after a success.
C3_AtMostRetryLimitAttempts ==
    /\ [](\A i \in ItemIds :
            /\ task[i].dv.started <= RETRY_LIMIT
            /\ task[i].dv.tries <= RETRY_LIMIT
            /\ task[i].dv.pc \in {"sleep", "returned", "raised"}
                  => task[i].dv.started = task[i].dv.finished)
    /\ [][\A i \in ItemIds :
            task[i].dv.pc \in {"sleep", "returned", "raised"}
               => task'[i].dv.started = task[i].dv.started]_vars

\* C3 witness: an item has failed three times and download_video has raised.
C3_Witness ==
    \E i \in ItemIds : /\ task[i].dv.pc = "raised"
                       /\ task[i].dv.started = RETRY_LIMIT
                       /\ task[i].dv.tries = RETRY_LIMIT

\* C4: in a run of main_async, an item whose probe fails gets zero fetch
\* attempts and ends Skipped, not FatalFailure.
C4_ProbeFailureSkips ==
    \A i \in Created :
        metadata = "None"
           => /\ task[i].dv.started = 0
              /\ task[i].st = "done" => task[i].log = <<"Skipped">>


ChannelErrors == {"KeyError", "TypeError", "ListingError"}

\* A channel's identifier could not be normalized or its listing failed.
ChannelFailure == \E c \in ChanIds : chan[c].error \in ChannelErrors

\* Every video a channel has listed.
ListedItems == { i \in ItemIds : i[2] <= chan[i[1]].count }

\* C5: an item that exhausts its retries is logged and contained: nothing
\* propagates out of its task or its channel, no other item is cancelled
\* because of it, and a run that finishes has taken every item to its own
\* terminal outcome.
C5_ExhaustedRetriesContained ==
    \A i \in Created :
        task[i].dv.pc = "raised"
           => /\ task[i].st = "done"
              /\ task[i].result = "returned"
              /\ task[i].log = <<"FatalFailure">>
              /\ \A c \in ChanIds : chan[c].error # "ItemError"
              /\ ~ChannelFailure
                    => /\ mainPc \in {"gathering", "finished"}
                       /\ \A j \in Created : task[j].st # "cancelled"
              /\ mainPc = "finished"
                    => \A j \in ListedItems :
                          task[j].st = "done" /\ Len(task[j].log) = 1

\* C5 witness: the run has finished, one item ended in FatalFailure and
\* another one, processed after it, in Success.
C5_Witness ==
    /\ mainPc = "finished"
    /\ \E i, j \in Created : /\ task[i].log = <<"FatalFailure">>
                             /\ task[j].log = <<"Success">>

\* C6: a failure to normalize or list one channel is contained to that
\* channel: the run is not aborted and no task of another channel is
\* cancelled.
C6_ChannelFailureContained ==
    (\E c \in ChanIds : chan[c].error \in {"TypeError", "ListingError"})
       => /\ mainPc # "aborted"
          /\ \A c \in ChanIds : chan[c].pc # "cancelled"
          /\ \A i \in ItemIds : task[i].st # "cancelled"

\* Videos whose done callbacks have run.
Counted == { v \in VideoIds : vtask[v].callbacks = "run" }

\* C7: the progress counter of download_videos_in_channel starts at 0 with
\* total = number of items, never decreases, never exceeds total, counts each
\* item once when it is terminal, and equals total on return.
C7_ProgressCounter ==
    /\ [](dvc.pc \in {"gathering", "returned"}
            => /\ dvc.total = Cardinality(Videos)
               /\ dvc.pbar <= dvc.total
               /\ dvc.pbar = Cardinality(Counted)
               /\ \A v \in Counted :
                     /\ vtask[v].st = "done"
                     /\ Len(vtask[v].log) = 1
                     /\ vtask[v].log[1] \in TerminalOutcomes
               /\ dvc.pc = "returned" => dvc.pbar = dvc.total)
    /\ [][/\ dvc'.pbar >= dvc.pbar
          /\ dvc.pc = "start" => dvc'.pbar = 0
          /\ dvc'.pbar # dvc.pbar
                => /\ dvc'.pbar = dvc.pbar + 1
                   /\ Cardinality({ v \in VideoIds :
                         vtask[v].callbacks # "run" /\ vtask'[v].callbacks = "run" }) = 1]_vars

\* C7 witness: the function has returned after one video was skipped, one
\* succeeded and one exhausted its retries.
C7_Witness ==
    /\ dvc.pc = "returned"
    /\ dvc.pbar >= 3
    /\ \A o \in TerminalOutcomes : \E v \in VideoIds : vtask[v].log = <<o>>

\* The run cannot be expected to complete: the configuration is rejected,
\* maxConcurrent < 1, or a channel could not be normalized or listed.
Excused ==
    \/ load_config(config) = "ConfigError"
    \/ maxArg < 1
    \/ ChannelFailure

\* main_async has finished and every listed item has exactly one terminal
\* outcome.
RunComplete ==
    /\ mainPc = "finished"
    /\ \A c \in ChanTasks : chan[c].pc = "returned"
    /\ \A i \in ListedItems : /\ task[i].st = "done"
                              /\ Len(task[i].log) = 1
                              /\ task[i].log[1] \in TerminalOutcomes

\* C8: with maxConcurrent >= 1, no listing failure, every call returning and
\* fair scheduling, every listed item eventually reaches exactly one terminal
\* outcome and the run eventually completes.
C8_RunCompletes == <>(Excused \/ RunComplete)

\* C8 witness: a run over two channels, one of them with two videos, has
\* completed.
C8_Witness ==
    /\ RunComplete
    /\ ~Excused
    /\ Cardinality(ChanTasks) >= 2
    /\ \E c \in ChanTasks : chan[c].count >= 2

\* The configuration is malformed or lacks a required field.
Malformed ==
    \/ load_config(config) = "ConfigError"
    \/ \E k \in 1..Len(channels) : channels[k] = "url_missing"

\* C9: with a malformed configuration the run aborts at startup: no channel
\* is normalized or listed and no fetch attempt is started.
C9_MalformedConfigAbortsAtStartup ==
    Malformed
       => /\ \A c \in ChanIds : chan[c].url = "unset" /\ chan[c].count = 0
          /\ \A i \in ItemIds : task[i].dv.started = 0

\* C10: download_video sleeps exactly once, for R, after the successful
\* fetch and before the item is reported successful, if and only if a rate
\* limit R > 0 is configured; never after a failed attempt, nor for an item
\* that ends in FatalFailure.
C10_RateLimitDelay ==
    \A i \in Created :
        LET d == task[i].dv
            expected == IF rateArg > 0 THEN <<rateArg>> ELSE <<>>
        IN  /\ d.pc \in {"idle", "fetch", "raised"} => d.delays = <<>>
            /\ d.pc = "sleep" => d.delays = expected /\ rateArg > 0 /\ task[i].log = <<>>
            /\ d.pc = "returned" => d.delays = expected
            /\ task[i].log = <<"Success">> => d.pc = "returned" /\ d.delays = expected
            /\ task[i].log = <<"FatalFailure">> => d.delays = <<>>
            /\ d.delays # <<>> => d.finished = d.tries + 1

\* C10 witness: with a rate limit configured, an item succeeded on a later
\* attempt and slept once.
C10_Witness ==
    /\ rateArg > 0
    /\ \E i \in Created : /\ task[i].log = <<"Success">>
                          /\ task[i].dv.tries > 0
                          /\ task[i].dv.delays = <<rateArg>>


\* C11: get_channel_url returns the trimmed identifier unchanged whenever it
\* contains the single-item marker "youtube.com/watch?v=", whether or not it
\* starts with a URL scheme, starts with "UC" or contains "@".
C11_WatchUrlUnchanged ==
    (urlPc = "done" /\ contains(strip(identifier), WatchMarker))
       => channel_url = Some(strip(identifier))

\* C12: within one item the attempts are strictly sequential.  At most one
\* fetch of an item is in flight, whatever the other items do, and an attempt
\* starts only when every earlier attempt of the item has finished with a
\* failure.
C12_AttemptsSequential ==
    /\ [](\A i \in ItemIds :
            /\ task[i].dv.started - task[i].dv.finished \in {0, 1}
            /\ (task[i].dv.pc = "fetch")
                  <=> (task[i].dv.started = task[i].dv.finished + 1))
    /\ [][\A i \in ItemIds :
            task'[i].dv.started # task[i].dv.started
               => /\ task'[i].dv.started = task[i].dv.started + 1
                  /\ task'[i].dv.finished = task[i].dv.started
                  /\ task'[i].dv.tries = task[i].dv.started
                  /\ task'[i].dv.pc = "fetch"]_vars

\* The second attempt of one item is in flight while another item is
\* fetching too.
C12_Witness ==
    \E i, j \in ItemIds :
        /\ i # j
        /\ task[i].dv.pc = "fetch"
        /\ task[i].dv.started = 2
        /\ task[i].dv.finished = 1
        /\ task[j].dv.pc = "fetch"

\* C13: download_video ends in DownloadError exactly when three consecutive
\* attempts have failed; when attempt k (1..3) succeeds it returns after
\* exactly k attempts; it never returns normally without a successful attempt
\* and never raises before the third failure.  The successful attempts of an
\* item are the finished ones that were not counted as failures.
C13_OutcomeOfAttempts ==
    \A i \in ItemIds :
        LET d == task[i].dv
            succeeded == d.finished - d.tries
        IN  /\ succeeded \in {0, 1}
            /\ (d.pc = "raised")
                  <=> (d.tries = RETRY_LIMIT /\ d.finished = RETRY_LIMIT
                         /\ d.started = RETRY_LIMIT)
            /\ (d.pc \in {"sleep", "returned"})
                  <=> (succeeded = 1)
            /\ succeeded = 1
                  => /\ d.started = d.tries + 1
                     /\ d.finished = d.started
                     /\ d.started \in 1..RETRY_LIMIT
            /\ d.pc = "fetch" => (succeeded = 0 /\ d.tries < RETRY_LIMIT)

\* One item has raised DownloadError after three failures while another has
\* returned from its third attempt, which succeeded after two failures.
C13_Witness ==
    \E i, j \in ItemIds :
        /\ task[i].dv.pc = "raised"
        /\ task[i].dv.tries = RETRY_LIMIT
        /\ task[j].dv.pc = "returned"
        /\ task[j].dv.tries = 2
        /\ task[j].dv.started = 3

\* Slots held by the process_channel coroutines.
RECURSIVE HeldUpTo(_)
HeldUpTo(c) == IF c = 0 THEN 0 ELSE chan[c].held + HeldUpTo(c - 1)

\* C14: process_channel holds a slot around the creation of an item task
\* only.  It never holds more than one slot, the slot is given back before
\* the created item task executes its first step, the acquisition never
\* blocks when maxConcurrent >= 1, and every listed item of the channel gets
\* its task whatever the number of items in flight.
C14_SlotAroundCreationOnly ==
    /\ \A c \in ChanIds :
          /\ chan[c].held \in {0, 1}
          /\ (chan[c].held = 1) <=> (chan[c].pc \in {"holding", "made"})
          /\ maxArg >= 1 => chan[c].pc # "waiting"
          /\ (maxArg >= 1 /\ chan[c].pc \in {"gathering", "returned"})
                => \A k \in 1..chan[c].count : task[<<c, k>>].st # "none"
    /\ HeldUpTo(NumChannels) <= 1
    /\ mainPc = "gathering" => semaphore + HeldUpTo(NumChannels) = maxArg
    /\ \A i \in ItemIds :
          task[i].st \in {"running", "done"} => HeldUpTo(NumChannels) = 0

\* With one slot, a channel of two items is gathering and both of its item
\* tasks are fetching: both were created, and the slot is free again.
C14_Witness ==
    \E c \in ChanIds :
        /\ maxArg = 1
        /\ chan[c].pc = "gathering"
        /\ chan[c].count = 2
        /\ semaphore = 1
        /\ \A k \in 1..2 : task[<<c, k>>].st = "running" /\ task[<<c, k>>].dv.pc = "fetch"

\* The sem_download tasks inside "async with semaphore".
Holders == { v \in VideoIds : vtask[v].holds }

\* C15: the permits of download_videos_in_channel's semaphore are conserved:
\* free permits plus holders equal max_concurrent in every reachable state.
\* A task that has ended, by a skip, a success or a DownloadError, holds no
\* slot, and all permits are free when the function returns.
C15_PermitsConserved ==
    /\ dvc.pc # "start"
          => /\ dvc.semaphore + Cardinality(Holders) = dvc.max_concurrent
             /\ dvc.semaphore \in 0..dvc.max_concurrent
    /\ \A v \in VideoIds :
          /\ vtask[v].st = "done" => ~vtask[v].holds
          /\ vtask[v].holds => vtask[v].st \in {"probing", "running"}
    /\ dvc.pc = "returned" => dvc.semaphore = dvc.max_concurrent

\* The function has returned with more videos than slots, a skipped video and
\* one that exhausted its retries among them, and every permit is free.
C15_Witness ==
    /\ dvc.pc = "returned"
    /\ dvc.max_concurrent >= 1
    /\ dvc.total > dvc.max_concurrent
    /\ dvc.semaphore = dvc.max_concurrent
    /\ \E v \in VideoIds : vtask[v].log = <<"Skipped">>
    /\ \E v \in VideoIds : vtask[v].log = <<"FatalFailure">>

\* C16: when no identifier or listing fails, a channel is reported complete
\* only after every item task of the channel has reached its terminal
\* outcome, and main_async reports the run finished only after the
\* process_channel of every channel has returned.
C16_CompletionOrder ==
    ~ChannelFailure
       => /\ \A c \in ChanIds :
                chan[c].pc = "returned"
                   => \A k \in 1..chan[c].count :
                         /\ task[<<c, k>>].st = "done"
                         /\ Len(task[<<c, k>>].log) = 1
                         /\ task[<<c, k>>].log[1] \in TerminalOutcomes
          /\ mainPc = "finished"
                => \A c \in 1..Len(channels) : chan[c].pc = "returned"

\* Two channels of one item each have both been reported complete, one item
\* a Success and the other a FatalFailure, and the run is reported finished.
C16_Witness ==
    /\ mainPc = "finished"
    /\ Len(channels) = 2
    /\ \A c \in 1..2 : chan[c].pc = "returned" /\ chan[c].count = 1
    /\ task[<<1, 1>>].log = <<"Success">>
    /\ task[<<2, 1>>].log = <<"FatalFailure">>

====
